---- MODULE Spec2Model ----
(***************************************************************************)
(* Timeline assembly of scripts/timeline_assembler.py: build_timeline,     *)
(* prepare_timeline_clips / trim_clip_to_duration, concatenate_clips,      *)
(* _create_outro_sequence, mix_final_audio and assemble.                   *)
(*                                                                         *)
(* Durations are integers counting half seconds (0.5 s = 1), so that every *)
(* constant of the code (0.5, 1.5, 2.5, 4.0) is exact.  The file system is *)
(* the function fs from paths to the duration of the media file at that    *)
(* path, NoFile when there is none.  Each ffprobe / ffmpeg subprocess is a *)
(* nondeterministic choice of its outcome; the duration of a file ffmpeg   *)
(* writes is computed from the command line the code passes.               *)
(***************************************************************************)
EXTENDS Integers, Sequences, FiniteSets, TLC

\* ---------------------------------------------------------------- bounds
MaxSegs == 2                    \* voiceover segments / clip paths per run

VoDurations == {3, 16}          \* vo_end - vo_start: 1.5 s (below floor), 8 s
ClipDurations == {4, 12}        \* source clips of 2 s and 6 s
MusicDurations == {60}          \* a music bed longer than video and voiceover

\* ------------------------------------------------------- program constants
DEFAULT_SOURCE_DURATION == 8    \* source_duration = 4.0
PREPARE_MIN_DURATION == 5       \* min_duration: float = 2.5
FADE_DURATION == 3              \* current_duration - 1.5
BLACK_MARGIN == 1               \* d={gap + 0.5}
OUTRO_MARGIN == 1               \* timeline.voiceover_duration + 0.5

NoFile == -1
None == <<"none", 0>>

Min(a, b) == IF a <= b THEN a ELSE b
Max(a, b) == IF a >= b THEN a ELSE b

\* ------------------------------------------------------------------ paths
ClipPath(k) == <<"clip", k>>                  \* caller's k-th clip
TrimmedPathShared(k) == <<"trimmed", 0>>
TrimmedPath(k) == <<"trimmed", k>>            \* temp_dir/trimmed_{index:03d}.mp4
ConcatPath == <<"timeline_concat", 0>>        \* temp_dir/timeline_concat.mp4
BlackPath == <<"black_outro", 0>>             \* temp_dir/black_outro.mp4
FadedPath == <<"video_faded", 0>>             \* temp_dir/video_faded.mp4
OutroPath == <<"video_with_outro", 0>>        \* temp_dir/video_with_outro.mp4
OutputPath == <<"output", 0>>                 \* output_path of assemble
VoiceoverPath == <<"voiceover", 0>>
MusicPath == <<"music", 0>>

Paths ==
    {ClipPath(k) : k \in 0..(MaxSegs - 1)} \cup {TrimmedPath(k) : k \in 0..(MaxSegs - 1)}
    \cup {ConcatPath, BlackPath, FadedPath, OutroPath, OutputPath, VoiceoverPath, MusicPath}

VARIABLES
    pc,                  \* position in assemble_with_timing
    voiceover_segments,  \* input: sequence of [text, start, end]
    video_clips,         \* input: sequence of clip paths
    fs,                  \* file system: path -> duration of the file, or NoFile
    timeline,            \* the Timeline built by build_timeline
    i,                   \* loop position of prepare_timeline_clips (1-based)
    trims,               \* per segment: the call of trim_clip_to_duration made for it
    concat_list,         \* lines written to concat_timeline.txt
    video_duration,      \* local of assemble
    final_video_path,    \* local of assemble
    outro,               \* locals of _create_outro_sequence
    calls,               \* ffmpeg transcodes run so far, in order
    result,              \* what assemble returned
    concat_probe,        \* outcome of the ffprobe of the concatenated video
    mix_stderr,          \* result.stderr of the mix transcode
    blocked,             \* subprocess.run waits on a process that never exits
    \* fal_wrapper.py: one FalClient and the threads that call generate
    max_concurrent,      \* FalConfig.max_concurrent
    max_workers,         \* threads that may run generate at the same time
    tasks,               \* per task: the cache key of its model and arguments
    active_requests,     \* RateLimiter.active_requests
    cache,               \* FalClient.cache: the keys that hold a result
    thread,              \* per task: position and locals of its call of generate
    results,             \* the results list of batch_generate
    \* video_pipeline.py: VideoPipeline.run
    shots,               \* number of shots of the script
    storyboard_images,   \* local of run: frames of the shots whose image succeeded
    videos               \* results["videos"]: one record per video generation

falVars == <<max_concurrent, max_workers, tasks, active_requests, cache, thread, results>>
pipeVars == <<shots, storyboard_images, videos>>

vars == <<pc, voiceover_segments, video_clips, fs, timeline, i, trims, concat_list,
          video_duration, final_video_path, outro, calls, result, concat_probe,
          mix_stderr, blocked, falVars, pipeVars>>

\* no FalClient in use
FalIdle ==
    /\ max_concurrent = 0
    /\ max_workers = 0
    /\ tasks = <<>>
    /\ active_requests = 0
    /\ cache = {}
    /\ thread = <<>>
    /\ results = <<>>

\* no VideoPipeline in use
PipeIdle ==
    /\ shots = 0
    /\ storyboard_images = <<>>
    /\ videos = <<>>

\* Path.exists()
Exists(p) == p # None /\ fs[p] # NoFile

RECURSIVE SumDurations(_, _)
\* total duration of the files named by a sequence of paths under file system f
SumDurations(f, ps) ==
    IF ps = <<>> THEN 0
    ELSE (IF f[Head(ps)] = NoFile THEN 0 ELSE f[Head(ps)]) + SumDurations(f, Tail(ps))

RECURSIVE StartOf(_, _)
\* start time of the k-th narration segment: segments are contiguous
StartOf(ds, k) == IF k <= 1 THEN 0 ELSE StartOf(ds, k - 1) + ds[k - 1]

\* duration of the full voiceover audio: the end of its last segment
TotalVoiceover(vs) == IF vs = <<>> THEN 0 ELSE vs[Len(vs)].end

\* -------------------------------------------------------------- the inputs
\* voiceover segments as the alignment service gives them
VoiceoverInputs ==
    UNION {{[k \in 1..n |-> [text |-> k, start |-> StartOf(ds, k), end |-> StartOf(ds, k) + ds[k]]]
              : ds \in [1..n -> VoDurations]} : n \in 0..MaxSegs}

\* a clip file is missing, or has one of the durations
ClipFiles == [0..(MaxSegs - 1) -> ClipDurations \cup {NoFile}]

NoOutro == [gap |-> 0, fade_start |-> 0, target |-> 0, black_rc |-> -1, fade_rc |-> -1,
            splice_rc |-> -1, returned |-> None]
NoResult == [success |-> FALSE, error |-> "", local_path |-> None, duration |-> 0,
             video_duration |-> 0]
NoTimeline == [segments |-> <<>>, voiceover_path |-> None, voiceover_duration |-> 0,
               music_path |-> None]

Init ==
    /\ pc = "build"
    /\ voiceover_segments \in VoiceoverInputs
    /\ \E n \in 0..MaxSegs : video_clips = [k \in 1..n |-> ClipPath(k - 1)]
    /\ \E cf \in ClipFiles :
         fs = [p \in Paths |->
                 IF p[1] = "clip" THEN (IF p[2] < Len(video_clips) THEN cf[p[2]] ELSE NoFile)
                 ELSE IF p = VoiceoverPath THEN TotalVoiceover(voiceover_segments)
                 ELSE NoFile]
    /\ timeline = NoTimeline
    /\ i = 1
    /\ trims = <<>>
    /\ concat_list = <<>>
    /\ video_duration = 0
    /\ final_video_path = None
    /\ outro = NoOutro
    /\ calls = <<>>
    /\ result = NoResult
    /\ concat_probe = ""
    /\ mix_stderr = ""
    /\ blocked = FALSE
    /\ FalIdle
    /\ PipeIdle

\* ------------------------------------------------------------ build_timeline
\* TimelineSegment.duration
Duration(segment) == segment.vo_end - segment.vo_start

ZipSegmentsCrossed(vs, clips) ==
    LET n == Min(Len(vs), Len(clips))
    IN [k \in 1..n |->
          [index |-> k - 1, voiceover_text |-> vs[k].text, vo_start |-> vs[k].start,
           vo_end |-> vs[k].end, video_path |-> clips[n + 1 - k], trimmed_video_path |-> None]]

\* for i, (segment, clip_path) in enumerate(zip(voiceover_segments, video_clips))
ZipSegments(vs, clips) ==
    [k \in 1..Min(Len(vs), Len(clips)) |->
        [index |-> k - 1, voiceover_text |-> vs[k].text, vo_start |-> vs[k].start,
         vo_end |-> vs[k].end, video_path |-> clips[k], trimmed_video_path |-> None]]

NoTrim == [called |-> FALSE, probe |-> "", source_duration |-> 0, target_duration |-> 0,
           min_duration |-> 0, final_duration |-> 0, rc |-> -1]

\* assemble_with_timing: build_timeline(...), then assemble(timeline, output_path)
BuildTimeline ==
    /\ pc = "build"
    /\ ~blocked
    /\ UNCHANGED <<falVars, pipeVars>>
    /\ UNCHANGED <<concat_probe, mix_stderr, blocked>>
    /\ \E music \in {None, MusicPath} :
         timeline' = [segments |-> ZipSegments(voiceover_segments, video_clips),
                      voiceover_path |-> VoiceoverPath,
                      voiceover_duration |-> TotalVoiceover(voiceover_segments),
                      music_path |-> music]
    /\ trims' = [k \in 1..Min(Len(voiceover_segments), Len(video_clips)) |-> NoTrim]
    /\ i' = 1
    /\ pc' = "trim"
    /\ UNCHANGED <<voiceover_segments, video_clips, fs, concat_list, video_duration,
                   final_video_path, outro, calls, result>>

\* ----------------------------------------------------- trim_clip_to_duration
\* outcomes of the ffprobe of a source clip: "ok" is a JSON document with the
\* duration of the file; "fail" is output that json.loads rejects or that
\* lacks format/duration (JSONDecodeError, KeyError: caught); "raise" is output
\* on which float() or the subscripts raise ValueError / TypeError (not caught)
ProbeOutcomes == {"ok", "fail", "raise"}

\* source_duration after the try / except
SourceDuration(probe, actual) == IF probe = "ok" THEN actual ELSE DEFAULT_SOURCE_DURATION

\* effective_duration = max(target_duration, min_duration)
EffectiveDuration(target_duration, min_duration) == Max(target_duration, min_duration)

FinalDurationMax(effective_duration, source_duration) == Max(effective_duration, source_duration)

\* final_duration = min(effective_duration, source_duration)
FinalDuration(effective_duration, source_duration) == Min(effective_duration, source_duration)

\* ffmpeg -i input -t final_duration: the output stops at final_duration or at
\* the end of the input, whichever comes first
TrimOutput(actual, final_duration) == Min(final_duration, actual)

\* ---------------------------------------------------- prepare_timeline_clips
\* effective_duration = max(vo_duration, min_duration)
PrepareEffective(vo_duration, min_duration) == Max(vo_duration, min_duration)

TrimFailurePathNone(segment) == None

\* else branch: segment.trimmed_video_path = segment.video_path
TrimFailurePath(segment) == segment.video_path

NextSegmentStay(k) == k

\* for segment in timeline.segments: the iterator moves to the next segment
NextSegment(k) == k + 1

\* if not segment.video_path or not segment.video_path.exists(): continue
SkipMissing ==
    /\ pc = "trim"
    /\ ~blocked
    /\ UNCHANGED <<falVars, pipeVars>>
    /\ UNCHANGED <<concat_probe, mix_stderr, blocked>>
    /\ i <= Len(timeline.segments)
    /\ ~Exists(timeline.segments[i].video_path)
    /\ i' = NextSegment(i)
    /\ UNCHANGED <<pc, voiceover_segments, video_clips, fs, timeline, trims, concat_list,
                   video_duration, final_video_path, outro, calls, result>>

\* one iteration of the loop with a clip that exists: the probe, the trim
\* transcode, and the assignment of trimmed_video_path
TrimSegment ==
    /\ pc = "trim"
    /\ ~blocked
    /\ UNCHANGED <<falVars, pipeVars>>
    /\ UNCHANGED <<concat_probe, mix_stderr, blocked>>
    /\ i <= Len(timeline.segments)
    /\ Exists(timeline.segments[i].video_path)
    /\ LET segment == timeline.segments[i]
           actual == fs[segment.video_path]
           target == PrepareEffective(Duration(segment), PREPARE_MIN_DURATION)
       IN \E probe \in ProbeOutcomes :
            IF probe = "raise"
            THEN /\ pc' = "raised"
                 /\ trims' = [trims EXCEPT ![i] = [NoTrim EXCEPT !.called = TRUE, !.probe = probe,
                                !.target_duration = target, !.min_duration = PREPARE_MIN_DURATION]]
                 /\ UNCHANGED <<i, fs, timeline, calls>>
            ELSE LET source_duration == SourceDuration(probe, actual)
                     final_duration == FinalDuration(
                         EffectiveDuration(target, PREPARE_MIN_DURATION), source_duration)
                 IN \E rc \in {0, 1} :
                      /\ trims' = [trims EXCEPT ![i] =
                                     [called |-> TRUE, probe |-> probe,
                                      source_duration |-> source_duration,
                                      target_duration |-> target,
                                      min_duration |-> PREPARE_MIN_DURATION,
                                      final_duration |-> final_duration, rc |-> rc]]
                      /\ calls' = Append(calls, "trim")
                      /\ IF rc = 0
                         THEN /\ fs' = [fs EXCEPT ![TrimmedPath(segment.index)] =
                                          TrimOutput(actual, final_duration)]
                              /\ timeline' = [timeline EXCEPT
                                   !.segments[i].trimmed_video_path = TrimmedPath(segment.index)]
                         ELSE /\ fs' = fs
                              /\ timeline' = [timeline EXCEPT
                                   !.segments[i].trimmed_video_path = TrimFailurePath(segment)]
                      /\ i' = NextSegment(i)
                      /\ pc' = pc
    /\ UNCHANGED <<voiceover_segments, video_clips, concat_list, video_duration,
                   final_video_path, outro, result>>

\* the loop is over; prepare_timeline_clips returns True
PrepareDone ==
    /\ pc = "trim"
    /\ ~blocked
    /\ UNCHANGED <<falVars, pipeVars>>
    /\ UNCHANGED <<concat_probe, mix_stderr, blocked>>
    /\ i > Len(timeline.segments)
    /\ pc' = "concat"
    /\ UNCHANGED <<voiceover_segments, video_clips, fs, timeline, i, trims, concat_list,
                   video_duration, final_video_path, outro, calls, result>>

\* -------------------------------------------------------- concatenate_clips
TimelineReadPruned(t) ==
    [t EXCEPT !.segments = SelectSeq(t.segments, LAMBDA s : Exists(s.trimmed_video_path))]

\* the Timeline argument after concatenate_clips or mix_final_audio returned:
\* both only read timeline.segments, voiceover_path and music_path
TimelineRead(t) == t

RECURSIVE ConcatListReversed(_)
ConcatListReversed(segments) ==
    IF segments = <<>> THEN <<>>
    ELSE ConcatListReversed(Tail(segments))
         \o (IF Exists(Head(segments).trimmed_video_path)
             THEN <<[index |-> Head(segments).index, path |-> Head(segments).trimmed_video_path]>>
             ELSE <<>>)

ConcatListTrimmedOnly(segments) ==
    LET kept == SelectSeq(segments, LAMBDA s : /\ Exists(s.trimmed_video_path)
                                               /\ s.trimmed_video_path # s.video_path)
    IN [k \in 1..Len(kept) |-> [index |-> kept[k].index, path |-> kept[k].trimmed_video_path]]

RECURSIVE ConcatList(_)
\* the lines of concat_timeline.txt: one per segment, in the order of
\* timeline.segments, whose trimmed_video_path is set and exists; index names
\* the segment the line was written for
ConcatList(segments) ==
    IF segments = <<>> THEN <<>>
    ELSE (IF Exists(Head(segments).trimmed_video_path)
          THEN <<[index |-> Head(segments).index, path |-> Head(segments).trimmed_video_path]>>
          ELSE <<>>)
         \o ConcatList(Tail(segments))

\* exit codes of ffmpeg -f concat -i list: a list without a file line is
\* rejected by the concat demuxer, any other run succeeds or fails
ConcatExitCodes(list) == IF list = <<>> THEN {1} ELSE {0, 1}

ConcatenateReturnsAlways(rc) == TRUE

\* return result.returncode == 0
ConcatenateReturns(rc) == rc = 0

FailureNoReason(reason) == NoResult

\* return {"success": False, "error": reason}
Failure(reason) == [NoResult EXCEPT !.error = reason]

\* Step 2 of assemble: concatenate_clips, and the return on its failure
Concatenate ==
    /\ pc = "concat"
    /\ ~blocked
    /\ UNCHANGED <<falVars, pipeVars>>
    /\ UNCHANGED <<concat_probe, mix_stderr, blocked>>
    /\ LET list == ConcatList(timeline.segments)
       IN /\ concat_list' = list
          /\ calls' = Append(calls, "concat")
          /\ timeline' = TimelineRead(timeline)
          /\ \E rc \in ConcatExitCodes(list) :
               /\ fs' = [fs EXCEPT ![ConcatPath] =
                           IF rc = 0 THEN SumDurations(fs, [k \in 1..Len(list) |-> list[k].path])
                           ELSE NoFile]
               /\ IF ConcatenateReturns(rc)
                  THEN pc' = "check" /\ result' = result
                  ELSE pc' = "done" /\ result' = Failure("Failed to concatenate clips")
    /\ UNCHANGED <<voiceover_segments, video_clips, i, trims, video_duration,
                   final_video_path, outro>>

\* target_duration handed to _create_outro_sequence
OutroTargetShort(voiceover_duration) == voiceover_duration - OUTRO_MARGIN

OutroTarget(voiceover_duration) == voiceover_duration + OUTRO_MARGIN

\* video_duration after the try / except of assemble: the probed duration, or
\* 0 when the probe could not be done or its output not be read
MeasuredDuration(probe, actual) == IF probe = "ok" THEN actual ELSE 0

NeedsOutroLate(duration, voiceover_duration) == duration + FADE_DURATION < voiceover_duration

\* if video_duration < timeline.voiceover_duration
NeedsOutro(duration, voiceover_duration) == duration < voiceover_duration

OutroEntryFade == "fade"

\* the first transcode of _create_outro_sequence: "Step 1: Create black video"
OutroEntry == "black"

\* "Verify concat duration": the probe of the concatenated file (any failure
\* is caught and gives 0), then the test video_duration < voiceover_duration
CheckDuration ==
    /\ pc = "check"
    /\ ~blocked
    /\ UNCHANGED <<falVars, pipeVars>>
    /\ UNCHANGED <<mix_stderr, blocked>>
    /\ \E probe \in {"ok", "fail"} :
         LET measured == MeasuredDuration(probe, fs[ConcatPath])
         IN /\ video_duration' = measured
            /\ concat_probe' = probe
            /\ final_video_path' = ConcatPath
            /\ IF NeedsOutro(measured, timeline.voiceover_duration)
               THEN /\ pc' = OutroEntry
                    /\ outro' = [NoOutro EXCEPT
                         !.target = OutroTarget(timeline.voiceover_duration),
                         !.gap = OutroTarget(timeline.voiceover_duration) - measured,
                         !.fade_start = Max(0, measured - FADE_DURATION)]
               ELSE /\ pc' = "mix"
                    /\ outro' = outro
    /\ UNCHANGED <<voiceover_segments, video_clips, fs, timeline, i, trims, concat_list,
                   calls, result>>

\* --------------------------------------------------- _create_outro_sequence
BlackDurationNoMargin(gap) == gap

\* d={gap + 0.5}
BlackDuration(gap) == gap + BLACK_MARGIN

\* Step 1: the black video; its exit status is not looked at
OutroBlack ==
    /\ pc = "black"
    /\ ~blocked
    /\ UNCHANGED <<falVars, pipeVars>>
    /\ UNCHANGED <<concat_probe, mix_stderr, blocked>>
    /\ \E rc \in {0, 1} :
         /\ outro' = [outro EXCEPT !.black_rc = rc]
         /\ fs' = [fs EXCEPT ![BlackPath] = IF rc = 0 THEN BlackDuration(outro.gap) ELSE NoFile]
    /\ calls' = Append(calls, "black")
    /\ pc' = "fade"
    /\ UNCHANGED <<voiceover_segments, video_clips, timeline, i, trims, concat_list,
                   video_duration, final_video_path, result>>

\* Step 2: the fade-out of the main video; returns None when it fails
OutroFade ==
    /\ pc = "fade"
    /\ ~blocked
    /\ UNCHANGED <<falVars, pipeVars>>
    /\ UNCHANGED <<concat_probe, mix_stderr, blocked>>
    /\ \E rc \in {0, 1} :
         /\ outro' = [outro EXCEPT !.fade_rc = rc]
         /\ fs' = [fs EXCEPT ![FadedPath] = IF rc = 0 THEN fs[ConcatPath] ELSE NoFile]
         /\ IF rc # 0
            THEN pc' = "mix" /\ final_video_path' = ConcatPath
            ELSE pc' = "splice" /\ final_video_path' = final_video_path
    /\ calls' = Append(calls, "fade")
    /\ UNCHANGED <<voiceover_segments, video_clips, timeline, i, trims, concat_list,
                   video_duration, result>>

\* ffmpeg -f concat -i outro_concat.txt -t target: the files of the list one
\* after the other, cut at target.  When black_outro.mp4 was not produced the
\* demuxer cannot open it after the faded video has been read: ffmpeg logs the
\* error and ends the input there, and exits 0 or not depending on the build
SpliceOutput(f, target) == Min(target, SumDurations(f, <<FadedPath, BlackPath>>))

\* Step 3: the splice, the test of its result, and the fallback of assemble
OutroSplice ==
    /\ pc = "splice"
    /\ ~blocked
    /\ UNCHANGED <<falVars, pipeVars>>
    /\ UNCHANGED <<concat_probe, mix_stderr, blocked>>
    /\ \E rc \in {0, 1} :
         LET returned == IF rc = 0 THEN OutroPath ELSE None
         IN /\ outro' = [outro EXCEPT !.splice_rc = rc, !.returned = returned]
            /\ fs' = [fs EXCEPT ![OutroPath] =
                        IF rc = 0 THEN SpliceOutput(fs, outro.target) ELSE NoFile]
            /\ IF returned # None
               THEN /\ final_video_path' = returned
                    /\ video_duration' = timeline.voiceover_duration + OUTRO_MARGIN
               ELSE /\ final_video_path' = ConcatPath
                    /\ video_duration' = video_duration
    /\ calls' = Append(calls, "splice")
    /\ pc' = "mix"
    /\ UNCHANGED <<voiceover_segments, video_clips, timeline, i, trims, concat_list, result>>

\* ---------------------------------------------------------- mix_final_audio
AmixDurationLongest(voiceover, music) == Max(voiceover, music)

\* [vo][music]amix=inputs=2:duration=first: the mix ends with its first input
AmixDuration(voiceover, music) == voiceover

\* ffmpeg -map 0:v -map <audio> without -shortest or -t: the output file runs
\* until its longest stream ends
MuxDuration(video, audio) == Max(video, audio)

\* what the mix transcode can give: exit code and diagnostic text on stderr
MixOutcomes == {[rc |-> 0, stderr |-> ""],
                [rc |-> 1, stderr |-> "Invalid data found when processing input"]}

MixFailureReasonRaw(stderr) == stderr

\* return {"success": False, "error": "Failed to mix audio"}
MixFailureReason(stderr) == "Failed to mix audio"

\* Step 3 of assemble: mix_final_audio and the result of assemble.  A music
\* path that is given names a file that is missing or has some duration.
Mix ==
    /\ pc = "mix"
    /\ ~blocked
    /\ UNCHANGED <<falVars, pipeVars>>
    /\ UNCHANGED <<concat_probe, blocked>>
    /\ \E music \in (IF timeline.music_path = None THEN {NoFile}
                     ELSE MusicDurations \cup {NoFile}) :
         LET f == [fs EXCEPT ![MusicPath] = music]
             audio == IF timeline.music_path # None /\ f[timeline.music_path] # NoFile
                      THEN AmixDuration(f[timeline.voiceover_path], f[timeline.music_path])
                      ELSE f[timeline.voiceover_path]
         IN \E out \in MixOutcomes :
              /\ fs' = [f EXCEPT ![OutputPath] =
                          IF out.rc = 0 THEN MuxDuration(f[final_video_path], audio)
                          ELSE NoFile]
              /\ mix_stderr' = out.stderr
              /\ result' = IF out.rc # 0 THEN Failure(MixFailureReason(out.stderr))
                           ELSE [success |-> TRUE, error |-> "", local_path |-> OutputPath,
                                 duration |-> timeline.voiceover_duration,
                                 video_duration |-> video_duration]
    /\ calls' = Append(calls, "mix")
    /\ timeline' = TimelineRead(timeline)
    /\ pc' = "done"
    /\ UNCHANGED <<voiceover_segments, video_clips, i, trims, concat_list,
                   video_duration, final_video_path, outro>>

\* subprocess.run(cmd, capture_output=True) has no timeout: when the ffprobe
\* or ffmpeg process it started never exits, the call never returns
Hang ==
    /\ ~blocked
    /\ UNCHANGED <<falVars, pipeVars>>
    /\ \/ pc \in {"concat", "check", "black", "fade", "splice", "mix"}
       \/ /\ pc = "trim"
          /\ i <= Len(timeline.segments)
          /\ Exists(timeline.segments[i].video_path)
    /\ blocked' = TRUE
    /\ UNCHANGED <<pc, voiceover_segments, video_clips, fs, timeline, i, trims, concat_list,
                   video_duration, final_video_path, outro, calls, result, concat_probe,
                   mix_stderr>>

Next ==
    \/ BuildTimeline
    \/ SkipMissing
    \/ TrimSegment
    \/ PrepareDone
    \/ Concatenate
    \/ CheckDuration
    \/ OutroBlack
    \/ OutroFade
    \/ OutroSplice
    \/ Mix

\* the runs in which every external process exits
Spec == Init /\ [][Next]_vars

NextOrHang ==
    \/ Next
    \/ Hang

\* the runs in which an external process may never exit; every step of
\* assemble that can be taken is taken
FairSpec == Init /\ [][NextOrHang]_vars /\ WF_vars(NextOrHang)

\* ------------------------------------- trim_clip_to_duration, called alone
\* One call trim_clip_to_duration(input_path, output_path, target_duration,
\* min_duration) on a clip that exists.  A container whose metadata states a
\* duration of 0 is a file ffprobe answers "0.000000" for.
TRIM_MIN_DURATION == 4          \* min_duration: float = 2.0
TrimSourceDurations == {0, 4, 12}
TrimTargets == {0, 3, 5, 16}
TrimMinDurations == {TRIM_MIN_DURATION, PREPARE_MIN_DURATION}

TrimInit ==
    /\ pc = "trim_call"
    /\ voiceover_segments = <<>>
    /\ video_clips = <<ClipPath(0)>>
    /\ \E actual \in TrimSourceDurations :
         fs = [p \in Paths |-> IF p = ClipPath(0) THEN actual ELSE NoFile]
    /\ timeline = NoTimeline
    /\ i = 1
    /\ trims = <<NoTrim>>
    /\ concat_list = <<>>
    /\ video_duration = 0
    /\ final_video_path = None
    /\ outro = NoOutro
    /\ calls = <<>>
    /\ result = NoResult
    /\ concat_probe = ""
    /\ mix_stderr = ""
    /\ blocked = FALSE
    /\ FalIdle
    /\ PipeIdle

\* the body of trim_clip_to_duration: probe, try / except, max, min, transcode
TrimClipToDuration ==
    /\ pc = "trim_call"
    /\ \E target_duration \in TrimTargets, min_duration \in TrimMinDurations,
          probe \in ProbeOutcomes :
         LET actual == fs[ClipPath(0)]
         IN IF probe = "raise"
            THEN /\ pc' = "raised"
                 /\ trims' = <<[NoTrim EXCEPT !.called = TRUE, !.probe = probe,
                                  !.target_duration = target_duration,
                                  !.min_duration = min_duration]>>
                 /\ UNCHANGED <<fs, calls>>
            ELSE LET source_duration == SourceDuration(probe, actual)
                     final_duration == FinalDuration(
                         EffectiveDuration(target_duration, min_duration), source_duration)
                 IN \E rc \in {0, 1} :
                      /\ trims' = <<[called |-> TRUE, probe |-> probe,
                                     source_duration |-> source_duration,
                                     target_duration |-> target_duration,
                                     min_duration |-> min_duration,
                                     final_duration |-> final_duration, rc |-> rc]>>
                      /\ fs' = [fs EXCEPT ![TrimmedPath(0)] =
                                  IF rc = 0 THEN TrimOutput(actual, final_duration) ELSE NoFile]
                      /\ calls' = Append(calls, "trim")
                      /\ pc' = "trim_done"
    /\ UNCHANGED <<voiceover_segments, video_clips, timeline, i, concat_list, video_duration,
                   final_video_path, outro, result, concat_probe, mix_stderr, blocked,
                   falVars, pipeVars>>

TrimNext == TrimClipToDuration

TrimSpec == TrimInit /\ [][TrimNext]_vars

\* ============================================================ fal_wrapper.py
\* One FalClient shared by the threads that call generate: the worker threads
\* of batch_generate (ThreadPoolExecutor(max_workers=max_concurrent)), or the
\* threads of a caller that has one thread per task.  A step of a thread is
\* one access to a shared attribute (active_requests, cache) or one attempt at
\* the remote model; time.sleep changes nothing and is no step.
MaxTasks == 2                   \* tasks handed to the client
MAX_RETRIES == 3                \* max_retries: int = 3
DEFAULT_MAX_CONCURRENT == 2     \* max_concurrent: int = 2

ConcurrencyLimits == {1, DEFAULT_MAX_CONCURRENT}
TaskKeys == {"a", "b"}          \* _get_cache_key(model, arguments)

\* what one fal_client.subscribe call gives: a result, or an exception whose
\* message names validation / content / policy, names rate / limit, or neither
AttemptOutcomes == {"ok", "validation", "rate", "other"}

NoEntry == [none |-> TRUE]      \* None in [None] * len(tasks)

\* the remote model as the threads meet it: per call of generate, what the
\* attempts give one after the other
RemoteBehaviours == {<<"rate", "ok", "ok">>, <<"validation", "ok", "ok">>,
                     <<"other", "other", "other">>}

IdleThread == [pc |-> "idle", seen |-> 0, outcome |-> ""]

Threads == 1..Len(tasks)

FalInit ==
    /\ pc = "fal"
    /\ voiceover_segments = <<>>
    /\ video_clips = <<>>
    /\ fs = [p \in Paths |-> NoFile]
    /\ timeline = NoTimeline
    /\ i = 1
    /\ trims = <<>>
    /\ concat_list = <<>>
    /\ video_duration = 0
    /\ final_video_path = None
    /\ outro = NoOutro
    /\ calls = <<>>
    /\ result = NoResult
    /\ concat_probe = ""
    /\ mix_stderr = ""
    /\ blocked = FALSE
    /\ PipeIdle
    /\ max_concurrent \in ConcurrencyLimits
    /\ \E n \in 1..MaxTasks :
         /\ tasks \in [1..n -> TaskKeys]
         /\ max_workers \in {max_concurrent, n}
         /\ thread = [t \in 1..n |-> IdleThread]
         /\ results = [t \in 1..n |-> NoEntry]
    /\ tasks[1] = "a"
    /\ active_requests = 0
    /\ cache = {}

FalFrame ==
    UNCHANGED <<pc, voiceover_segments, video_clips, fs, timeline, i, trims, concat_list,
                video_duration, final_video_path, outro, calls, result, concat_probe,
                mix_stderr, blocked, pipeVars, max_concurrent, max_workers, tasks>>

Running(t) == thread[t].pc \notin {"idle", "done", "collected"}

\* a thread takes the task and enters generate: the cache lookup
\*   if use_cache and cache_key in self.cache: return self.cache[cache_key]
Start(t) ==
    /\ thread[t].pc = "idle"
    /\ \A u \in 1..(t - 1) : thread[u].pc # "idle"
    /\ Cardinality({u \in Threads : Running(u)}) < max_workers
    /\ thread' = [thread EXCEPT ![t] =
                    IF tasks[t] \in cache
                    THEN [@ EXCEPT !.pc = "done", !.outcome = "cached"]
                    ELSE [@ EXCEPT !.pc = "acquire"]]
    /\ UNCHANGED <<active_requests, cache, results>>
    /\ FalFrame

\* RateLimiter.acquire: while self.active_requests >= self.max_concurrent
AcquireCheck(t) ==
    /\ thread[t].pc = "acquire"
    /\ active_requests < max_concurrent
    /\ thread' = [thread EXCEPT ![t].pc = "incr_load"]
    /\ UNCHANGED <<active_requests, cache, results>>
    /\ FalFrame

\* self.active_requests += 1: the load
AcquireLoad(t) ==
    /\ thread[t].pc = "incr_load"
    /\ thread' = [thread EXCEPT ![t].pc = "incr_store", ![t].seen = active_requests]
    /\ UNCHANGED <<active_requests, cache, results>>
    /\ FalFrame

\* self.active_requests += 1: the store; acquire returns
AcquireStore(t) ==
    /\ thread[t].pc = "incr_store"
    /\ active_requests' = thread[t].seen + 1
    /\ thread' = [thread EXCEPT ![t].pc = "inside", ![t].seen = 0]
    /\ UNCHANGED <<cache, results>>
    /\ FalFrame

AfterErrorAlwaysRetry(kind, attempt) == "retry"

\* the except clause of the retry loop: raise, or sleep and go on
AfterError(kind, attempt) ==
    IF kind = "validation" THEN "raise"
    ELSE IF kind = "rate" THEN "retry"
    ELSE IF attempt = MAX_RETRIES - 1 THEN "raise"
    ELSE "retry"

RECURSIVE GenerateLoop(_, _)
\* for attempt in range(self.config.max_retries), from pass `attempt` on, and
\* the `raise Exception("Max retries exceeded ...")` behind the loop; outcomes
\* is what the calls of fal_client.subscribe give, one after the other
GenerateLoop(outcomes, attempt) ==
    IF attempt >= MAX_RETRIES THEN [attempts |-> attempt, outcome |-> "exhausted"]
    ELSE IF outcomes[attempt + 1] = "ok" THEN [attempts |-> attempt + 1, outcome |-> "result"]
    ELSE IF AfterError(outcomes[attempt + 1], attempt) = "raise"
    THEN [attempts |-> attempt + 1,
          outcome |-> IF outcomes[attempt + 1] = "validation" THEN "validation" ELSE "error"]
    ELSE GenerateLoop(outcomes, attempt + 1)

\* the try block of generate in a thread: the retry loop, and the store into
\* the cache before `return result`
Subscribe(t) ==
    /\ thread[t].pc = "inside"
    /\ \E outcomes \in RemoteBehaviours :
         LET run == GenerateLoop(outcomes, 0)
         IN /\ cache' = IF run.outcome = "result" THEN cache \cup {tasks[t]} ELSE cache
            /\ thread' = [thread EXCEPT ![t].pc = "release_load", ![t].outcome = run.outcome]
    /\ UNCHANGED <<active_requests, results>>
    /\ FalFrame

\* finally: RateLimiter.release, the load of self.active_requests
ReleaseLoad(t) ==
    /\ thread[t].pc = "release_load"
    /\ thread' = [thread EXCEPT ![t].pc = "release_store", ![t].seen = active_requests]
    /\ UNCHANGED <<active_requests, cache, results>>
    /\ FalFrame

\* self.active_requests = max(0, self.active_requests - 1): the store; generate
\* returns its result or lets its exception go on
ReleaseStore(t) ==
    /\ thread[t].pc = "release_store"
    /\ active_requests' = Max(0, thread[t].seen - 1)
    /\ thread' = [thread EXCEPT ![t].pc = "done", ![t].seen = 0]
    /\ UNCHANGED <<cache, results>>
    /\ FalFrame

\* future.result(): the response generate returned for the task
Response(t) == [response |-> tasks[t]]

\* {"error": str(e)}
ErrorEntry(t) == [error |-> thread[t].outcome]

\* what the future of task t holds
Outcome(t) == IF thread[t].outcome \in {"result", "cached"} THEN Response(t) ELSE ErrorEntry(t)

StoreAppend(list, idx, entry) ==
    LET free == {k \in 1..Len(list) : list[k] = NoEntry}
    IN [list EXCEPT ![CHOOSE k \in free : \A j \in free : k <= j] = entry]

\* results[idx] = ...
Store(list, idx, entry) == [list EXCEPT ![idx] = entry]

\* for future in as_completed(future_to_idx): one pass, for a future that is done
Collect(t) ==
    /\ thread[t].pc = "done"
    /\ results' = Store(results, t, Outcome(t))
    /\ thread' = [thread EXCEPT ![t].pc = "collected"]
    /\ UNCHANGED <<active_requests, cache>>
    /\ FalFrame

FalNext ==
    \/ \E t \in Threads : Start(t)
    \/ \E t \in Threads : AcquireCheck(t)
    \/ \E t \in Threads : AcquireLoad(t)
    \/ \E t \in Threads : AcquireStore(t)
    \/ \E t \in Threads : Subscribe(t)
    \/ \E t \in Threads : ReleaseLoad(t)
    \/ \E t \in Threads : ReleaseStore(t)
    \/ \E t \in Threads : Collect(t)

FalSpec == FalInit /\ [][FalNext]_vars
\* ------------------------------------------------- generate, called alone
\* One call of FalClient.generate by one thread: the remote model gives
\* `outcomes`, one per attempt, and the cache holds the key of the call or not.
GenerateInit ==
    /\ pc = "generate"
    /\ voiceover_segments = <<>>
    /\ video_clips = <<>>
    /\ fs = [p \in Paths |-> NoFile]
    /\ timeline = NoTimeline
    /\ i = 1
    /\ trims = <<>>
    /\ concat_list = <<>>
    /\ video_duration = 0
    /\ final_video_path = None
    /\ outro = NoOutro
    /\ calls = <<>>
    /\ result = NoResult
    /\ concat_probe = ""
    /\ mix_stderr = ""
    /\ blocked = FALSE
    /\ PipeIdle
    /\ max_concurrent \in ConcurrencyLimits
    /\ max_workers = 1
    /\ tasks = <<"a">>
    /\ active_requests = 0
    /\ cache \in {{}, {"a"}}
    /\ \E outcomes \in [1..MAX_RETRIES -> AttemptOutcomes], use_cache \in BOOLEAN :
         thread = <<[pc |-> "called", outcomes |-> outcomes, use_cache |-> use_cache,
                     attempts |-> 0, outcome |-> "", acquired |-> 0, released |-> 0]>>
    /\ results = <<NoEntry>>

\* the cache lookup, then self.rate_limiter.acquire()
GenerateEnter ==
    /\ thread[1].pc = "called"
    /\ IF thread[1].use_cache /\ tasks[1] \in cache
       THEN /\ thread' = [thread EXCEPT ![1].pc = "returned", ![1].outcome = "cached"]
            /\ active_requests' = active_requests
       ELSE /\ active_requests < max_concurrent
            /\ active_requests' = active_requests + 1
            /\ thread' = [thread EXCEPT ![1].pc = "try", ![1].acquired = @ + 1]
    /\ UNCHANGED <<cache, results>>
    /\ FalFrame

\* the try block: the retry loop, `if use_cache: self.cache[cache_key] = result`
GenerateTry ==
    /\ thread[1].pc = "try"
    /\ LET run == GenerateLoop(thread[1].outcomes, 0)
       IN /\ thread' = [thread EXCEPT ![1].pc = "finally", ![1].attempts = run.attempts,
                                       ![1].outcome = run.outcome]
          /\ cache' = IF run.outcome = "result" /\ thread[1].use_cache
                      THEN cache \cup {tasks[1]} ELSE cache
    /\ UNCHANGED <<active_requests, results>>
    /\ FalFrame

\* finally: self.rate_limiter.release(); the result is returned or the
\* exception goes on to the caller
GenerateFinally ==
    /\ thread[1].pc = "finally"
    /\ active_requests' = Max(0, active_requests - 1)
    /\ thread' = [thread EXCEPT ![1].pc = "returned", ![1].released = @ + 1]
    /\ UNCHANGED <<cache, results>>
    /\ FalFrame

GenerateNext ==
    \/ GenerateEnter
    \/ GenerateTry
    \/ GenerateFinally

GenerateSpec == GenerateInit /\ [][GenerateNext]_vars

\* ========================================================= video_pipeline.py
\* VideoPipeline.run up to the Timeline that assemble_with_timing builds.  A
\* shot is named by its index in script.shots; frame_{i}.png is named by i, and
\* the text of a voiceover timing is the text of the shot it was mapped to.
\* Files are not looked at on this way: fs stays empty.
MaxShots == 3                   \* shots of the script

PipeInit ==
    /\ pc = "storyboard"
    /\ voiceover_segments = <<>>
    /\ video_clips = <<>>
    /\ fs = [p \in Paths |-> NoFile]
    /\ timeline = NoTimeline
    /\ i = 0
    /\ trims = <<>>
    /\ concat_list = <<>>
    /\ video_duration = 0
    /\ final_video_path = None
    /\ outro = NoOutro
    /\ calls = <<>>
    /\ result = NoResult
    /\ concat_probe = ""
    /\ mix_stderr = ""
    /\ blocked = FALSE
    /\ FalIdle
    /\ shots \in 1..MaxShots
    /\ storyboard_images = <<>>
    /\ videos = <<>>

PipeFrame ==
    UNCHANGED <<fs, timeline, trims, concat_list, video_duration, final_video_path, outro,
                calls, result, concat_probe, mix_stderr, blocked, falVars, shots>>

\* PHASE 1, one pass: generate_storyboard_image(shot, i) succeeds or not
StoryboardShot ==
    /\ pc = "storyboard"
    /\ i < shots
    /\ \E success \in BOOLEAN :
         storyboard_images' = IF success THEN Append(storyboard_images, i)
                              ELSE storyboard_images
    /\ i' = i + 1
    /\ UNCHANGED <<pc, voiceover_segments, video_clips, videos>>
    /\ PipeFrame

\* if not storyboard_images: return results
StoryboardDone ==
    /\ pc = "storyboard"
    /\ i = shots
    /\ pc' = IF storyboard_images = <<>> THEN "returned" ELSE "video"
    /\ i' = 0
    /\ UNCHANGED <<voiceover_segments, video_clips, storyboard_images, videos>>
    /\ PipeFrame

\* PHASE 2, one pass of enumerate(zip(self.script.shots, storyboard_images)):
\* generate_video_from_image(shot, image_path, i) writes clip_{i} or fails
VideoShot ==
    /\ pc = "video"
    /\ i < Min(shots, Len(storyboard_images))
    /\ \E success \in BOOLEAN :
         /\ videos' = Append(videos, [shot_index |-> i, image |-> storyboard_images[i + 1],
                                      success |-> success])
         /\ video_clips' = IF success THEN Append(video_clips, ClipPath(i)) ELSE video_clips
    /\ i' = i + 1
    /\ UNCHANGED <<pc, voiceover_segments, storyboard_images>>
    /\ PipeFrame

\* if not video_clips: return results
VideoDone ==
    /\ pc = "video"
    /\ i = Min(shots, Len(storyboard_images))
    /\ pc' = IF video_clips = <<>> THEN "returned" ELSE "audio"
    /\ UNCHANGED <<i, voiceover_segments, video_clips, storyboard_images, videos>>
    /\ PipeFrame

RECURSIVE Ascending(_)
\* the members of a set of numbers, lowest first
Ascending(S) ==
    IF S = {} THEN <<>>
    ELSE LET low == CHOOSE x \in S : \A y \in S : x <= y
         IN <<low>> \o Ascending(S \ {low})

\* _map_sentences_to_shots, and the segments assemble_video makes of it: one
\* entry, in shot order, for each shot that has voiceover text and to which a
\* sentence was mapped; the times are one after the other
ShotTimings(timed) ==
    LET order == Ascending(timed)
    IN [k \in 1..Len(order) |->
          [text |-> order[k], start |-> k - 1, end |-> k]]

\* PHASE 3: generate_voiceover; no timing at all when it fails
GenerateAudio ==
    /\ pc = "audio"
    /\ \E timed \in SUBSET (0..(shots - 1)) :
         voiceover_segments' = ShotTimings(timed)
    /\ pc' = "assemble"
    /\ UNCHANGED <<i, video_clips, storyboard_images, videos>>
    /\ PipeFrame

\* PHASE 4: assemble_video; with timings it calls assemble_with_timing, whose
\* first step is BuildTimeline, without it concatenates the clips as they are
AssembleVideo ==
    /\ pc = "assemble"
    /\ pc' = IF voiceover_segments # <<>> THEN "build" ELSE "returned"
    /\ UNCHANGED <<i, voiceover_segments, video_clips, storyboard_images, videos>>
    /\ PipeFrame

PipeNext ==
    \/ StoryboardShot
    \/ StoryboardDone
    \/ VideoShot
    \/ VideoDone
    \/ GenerateAudio
    \/ AssembleVideo
    \/ BuildTimeline

PipeSpec == PipeInit /\ [][PipeNext]_vars

\* ================================================================== claims
Segs == timeline.segments
Concatenated == pc \notin {"build", "trim", "raised", "concat"}
MixReached == pc = "mix" \/ (pc = "done" /\ \E c \in 1..Len(calls) : calls[c] = "mix")
Ran(stage) == \E c \in 1..Len(calls) : calls[c] = stage
\* the trim transcode of segment k ran and exited with rc
Trimmed(k, rc) == trims[k].called /\ trims[k].rc = rc

\* C1 (as claimed): every trimmed clip is at most as long as its source clip,
\* and when the source is shorter than max(target_duration, min_duration) the
\* trimmed clip has the full duration of the source.
NeverExtendFullSource ==
    \A k \in 1..Len(trims) :
        Trimmed(k, 0) =>
            LET src == fs[Segs[k].video_path]
                out == fs[TrimmedPath(Segs[k].index)]
            IN /\ out <= src
               /\ (src < Max(trims[k].target_duration, trims[k].min_duration) => out = src)

\* C2: the duration asked of the trim transcode of a segment is
\* min(max(vo duration, min_duration), source_duration), hence
\* min(min_duration, source_duration) for a voiceover span below the floor;
\* source_duration is what the trimmer holds for the source: the probed
\* duration of the clip, or the default when the probe gave none.
RequestedDuration ==
    \A k \in 1..Len(trims) :
        (trims[k].called /\ trims[k].probe # "raise") =>
            LET vo == Duration(Segs[k])
                src == trims[k].source_duration
            IN /\ src = (IF trims[k].probe = "ok" THEN fs[Segs[k].video_path]
                         ELSE DEFAULT_SOURCE_DURATION)
               /\ trims[k].final_duration = Min(Max(vo, PREPARE_MIN_DURATION), src)
               /\ (vo < PREPARE_MIN_DURATION =>
                     trims[k].final_duration = Min(PREPARE_MIN_DURATION, src))

\* a span below the floor was raised to the floor, another request was capped
\* by the source
RequestedDurationWitness ==
    /\ \E k \in 1..Len(trims) :
         /\ Trimmed(k, 0)
         /\ Duration(Segs[k]) < PREPARE_MIN_DURATION
         /\ trims[k].final_duration = PREPARE_MIN_DURATION
    /\ \E k \in 1..Len(trims) :
         /\ Trimmed(k, 0)
         /\ trims[k].final_duration = trims[k].source_duration
         /\ trims[k].final_duration < trims[k].target_duration

\* C3 (as claimed): with a number of voiceover segments different from the
\* number of clip paths, build_timeline returns no Timeline: the run never gets
\* past the build.
MismatchRaises ==
    Len(voiceover_segments) # Len(video_clips) => pc = "build"

\* C4: the lines of the concatenation list are in ascending segment index.
ConcatOrder ==
    \A p, q \in 1..Len(concat_list) :
        p < q => concat_list[p].index < concat_list[q].index

\* a list of two clips, one trimmed and one whose trim failed
ConcatOrderWitness ==
    /\ Concatenated
    /\ Len(concat_list) >= 2
    /\ \E j, k \in 1..Len(trims) : Trimmed(j, 1) /\ Trimmed(k, 0)

\* C5 (as claimed): when every segment is missing or its trim failed, the run
\* ends at the concatenation with a failure, without mix and without output.
ConcatFailed ==
    /\ pc = "done"
    /\ result = Failure("Failed to concatenate clips")
    /\ ~Ran("mix") /\ ~Ran("black") /\ ~Ran("fade") /\ ~Ran("splice")
    /\ fs[OutputPath] = NoFile

OutroNoOp ==
    (Concatenated /\ Exists(ConcatPath) /\ fs[ConcatPath] >= timeline.voiceover_duration)
        => /\ pc \notin {"black", "fade", "splice"}
           /\ ~Ran("black") /\ ~Ran("fade") /\ ~Ran("splice")
           /\ (MixReached => final_video_path = ConcatPath)

MixDurationIsVideo ==
    (pc = "done" /\ result.success) => fs[OutputPath] = fs[final_video_path]

\* C8 (amended): the output of a successful mix, with and without music, is as
\* long as the longer of its input video and the voiceover; the length of the
\* music never changes it.
MixDurationIsLonger ==
    (pc = "done" /\ result.success)
        => fs[OutputPath] = Max(fs[final_video_path], fs[timeline.voiceover_path])

\* a mix with a music bed longer than video and voiceover, on a video that is
\* shorter than the voiceover
MixDurationWitness ==
    /\ pc = "done" /\ result.success
    /\ timeline.music_path # None
    /\ fs[MusicPath] > fs[timeline.voiceover_path]
    /\ fs[final_video_path] < fs[timeline.voiceover_path]

OutroFallback ==
    (MixReached /\ (outro.black_rc = 1 \/ outro.fade_rc = 1 \/ outro.splice_rc = 1))
        => /\ outro.returned = None
           /\ final_video_path = ConcatPath

NoFaultEscapes == pc # "raised"

\* C13 (as claimed): after a mix transcode that exited non-zero, the failure
\* result carries the diagnostic text of the transcode.
MixErrorCarriesDiagnostic ==
    (pc = "done" /\ Ran("mix") /\ ~result.success) => result.error = mix_stderr

\* C13 (amended): after a mix transcode that exited non-zero, the result is the
\* failure with the fixed reason "Failed to mix audio", whatever the diagnostic
\* text of the transcode was.
MixErrorFixedReason ==
    (pc = "done" /\ Ran("mix") /\ ~result.success)
        => /\ mix_stderr # ""
           /\ result = [success |-> FALSE, error |-> "Failed to mix audio",
                        local_path |-> None, duration |-> 0, video_duration |-> 0]

\* a failed mix with diagnostic text
MixErrorWitness ==
    /\ pc = "done" /\ Ran("mix") /\ ~result.success
    /\ mix_stderr = "Invalid data found when processing input"

\* C14 (as claimed): every run of assemble comes to its end, with a result or
\* an exception, also when an external process never exits.
Terminates == <>(pc \in {"done", "raised"})

\* C15 (as claimed): right after the duration check, a probe of the
\* concatenated video that failed has left assemble in a state other than the
\* one a probed duration of 0 leaves it in.
ProbeFailureDistinct ==
    (pc = OutroEntry /\ ~Ran(OutroEntry) /\ concat_probe = "fail")
        => \/ video_duration # MeasuredDuration("ok", 0)
           \/ outro.gap # OutroTarget(timeline.voiceover_duration) - MeasuredDuration("ok", 0)

\* position of the first call of a stage in calls, 0 when it has not run
RECURSIVE FirstCall(_, _)
FirstCall(stage, c) ==
    IF c > Len(calls) THEN 0 ELSE IF calls[c] = stage THEN c ELSE FirstCall(stage, c + 1)
Count(stage) == Cardinality({c \in 1..Len(calls) : calls[c] = stage})
Rank(stage) ==
    CASE stage = "trim" -> 1
      [] stage = "concat" -> 2
      [] stage \in {"black", "fade", "splice"} -> 4
      [] stage = "mix" -> 5
\* the duration the check of assemble measured for the concatenated video
Measured == MeasuredDuration(concat_probe, fs[ConcatPath])

\* C16: the transcodes of a run come in the order trims, concatenation, outro
\* steps, mix, each stage at most once; the mix starts only after a successful
\* concatenation and the duration check; after a failed concatenation the run
\* ends without outro and without mix.
StageOrder ==
    /\ \A a \in 1..(Len(calls) - 1) : Rank(calls[a]) <= Rank(calls[a + 1])
    /\ \A stage \in {"concat", "black", "fade", "splice", "mix"} : Count(stage) <= 1
    /\ Count("trim") <= Len(Segs)
    /\ (pc = "check" \/ concat_probe # "") => (Ran("concat") /\ Exists(ConcatPath))
    /\ (Ran("black") \/ Ran("fade") \/ Ran("splice") \/ MixReached) => concat_probe # ""
    /\ (Ran("concat") /\ ~Exists(ConcatPath)) =>
         /\ pc = "done" /\ ~result.success
         /\ ~Ran("black") /\ ~Ran("fade") /\ ~Ran("splice") /\ ~Ran("mix")
    /\ pc = "done" => (Ran("concat") /\ (result.success => Ran("mix")))

\* a run through every stage, outro included
StageOrderWitness ==
    /\ pc = "done"
    /\ Ran("trim") /\ Ran("concat") /\ Ran("splice") /\ Ran("mix")

\* C17: when the measured duration of the concatenated video is below the
\* voiceover duration, outro synthesis is entered exactly once, and before the
\* mix.
OutroOnce ==
    (concat_probe # "" /\ Measured < timeline.voiceover_duration) =>
        /\ pc # "mix" => (pc = OutroEntry \/ Ran(OutroEntry))
        /\ Count(OutroEntry) <= 1
        /\ MixReached =>
             /\ Count(OutroEntry) = 1
             /\ Ran("mix") => FirstCall(OutroEntry, 1) < FirstCall("mix", 1)

\* the mix has run after an outro that a gap of one half second asked for
OutroOnceWitness ==
    /\ pc = "done" /\ Ran("mix")
    /\ concat_probe = "ok"
    /\ timeline.voiceover_duration - Measured = 1
    /\ Ran(OutroEntry)

\* C18 (as claimed): in outro synthesis the fade-out runs before the black
\* fill, and the splice after both.
FadeBeforeBlack ==
    /\ Ran("black") => (Ran("fade") /\ FirstCall("fade", 1) < FirstCall("black", 1))
    /\ Ran("splice") => (FirstCall("fade", 1) < FirstCall("splice", 1)
                         /\ FirstCall("black", 1) < FirstCall("splice", 1))

\* C18 (amended): in outro synthesis the black fill runs before the fade-out,
\* and the splice after both, and only after a fade-out that exited zero.
BlackBeforeFade ==
    /\ Ran("fade") => (Ran("black") /\ FirstCall("black", 1) < FirstCall("fade", 1))
    /\ Ran("splice") => /\ Ran("black") /\ Ran("fade")
                        /\ FirstCall("fade", 1) < FirstCall("splice", 1)
                        /\ FirstCall("black", 1) < FirstCall("splice", 1)
                        /\ outro.fade_rc = 0

\* an outro went through its three transcodes
BlackBeforeFadeWitness ==
    /\ pc = "mix"
    /\ Ran("black") /\ Ran("fade") /\ Ran("splice")

\* C19 (as claimed): the black fill lasts the gap between voiceover and
\* measured concatenated duration, plus 0.5 s.
BlackFillGapPlusMargin ==
    outro.black_rc = 0
        => fs[BlackPath] = (timeline.voiceover_duration - Measured) + BLACK_MARGIN

\* C19 (amended): the black fill lasts the gap between voiceover and measured
\* concatenated duration, plus 1.0 s: the 0.5 s of the target assemble passes
\* and the 0.5 s of the black-fill command.
BlackFillGapPlusTwoMargins ==
    outro.black_rc = 0
        => fs[BlackPath] =
             (timeline.voiceover_duration - Measured) + OUTRO_MARGIN + BLACK_MARGIN

\* a black fill was written for a probed concatenated video
BlackFillWitness ==
    /\ pc = "fade"
    /\ outro.black_rc = 0
    /\ concat_probe = "ok"
    /\ Exists(BlackPath)

\* C20 (as claimed): after an outro synthesis that returned a path, faded video
\* plus black fill is at least voiceover + 0.5 s long, the spliced video is
\* exactly that long, and a successful result reports that video_duration.
OutroExactDuration ==
    outro.returned = OutroPath =>
        /\ SumDurations(fs, <<FadedPath, BlackPath>>)
             >= timeline.voiceover_duration + OUTRO_MARGIN
        /\ fs[OutroPath] = timeline.voiceover_duration + OUTRO_MARGIN
        /\ (pc = "done" /\ result.success) =>
             result.video_duration = timeline.voiceover_duration + OUTRO_MARGIN

\* C21: within one run each segment's trimmed_video_path is written at most
\* once, by the loop iteration of prepare_timeline_clips for that segment and
\* by nothing else, and concatenate_clips reads the segments only after the
\* loop has gone through every segment.
SingleWriter ==
    /\ [][/\ i' >= i
          /\ \A k \in 1..Len(Segs) :
               Segs'[k].trimmed_video_path # Segs[k].trimmed_video_path =>
                   /\ pc = "trim" /\ i = k /\ i' = k + 1
                   /\ Segs[k].trimmed_video_path = None
                   /\ ~trims[k].called /\ trims'[k].called
                   /\ \A j \in 1..Len(Segs) : j # k => Segs'[j] = Segs[j]
          /\ concat_list' # concat_list =>
               /\ pc = "concat"
               /\ i > Len(Segs)
               /\ Segs' = Segs]_vars
    /\ [](Ran("concat") => i > Len(Segs))

\* two segments were written, one by a trim that succeeded and one by a trim
\* that failed, and the concatenation has read both
SingleWriterWitness ==
    /\ Concatenated
    /\ Len(concat_list) = 2
    /\ \E j, k \in 1..Len(trims) :
         /\ Trimmed(j, 0) /\ Segs[j].trimmed_video_path = TrimmedPath(Segs[j].index)
         /\ Trimmed(k, 1) /\ Segs[k].trimmed_video_path = Segs[k].video_path

\* C22: once the trim stage has finished, no step of the run (concatenation,
\* duration check, outro synthesis, mix, on success and on failure) changes the
\* Timeline: its segments and their order, voiceover_duration, voiceover_path
\* and music_path stay as the trim stage left them.
ReadOnlyAfterTrim ==
    [][pc \notin {"build", "trim"} => timeline' = timeline]_vars

\* a run through concatenation, outro and mix on a timeline that still holds a
\* segment without trimmed clip
ReadOnlyWitness ==
    /\ pc = "done"
    /\ Ran("concat") /\ Ran("splice") /\ Ran("mix")
    /\ \E k \in 1..Len(Segs) : Segs[k].trimmed_video_path = None

\* C23 (as claimed): for every call of trim_clip_to_duration with
\* min_duration > 0 whose probe returned, failed or gave a duration of zero, the
\* source duration used is positive (an implausible one was replaced by the
\* default) and the duration requested from the trim transcode is positive.
TrimRequestPositive ==
    \A k \in 1..Len(trims) :
        (trims[k].called /\ trims[k].probe # "raise" /\ trims[k].min_duration > 0) =>
            /\ trims[k].source_duration > 0
            /\ trims[k].final_duration > 0

\* C24: the concatenation list has one line, with the segment's
\* trimmed_video_path, for every segment whose trimmed_video_path is set and
\* exists, and no other line and no line twice; a segment whose source clip was
\* missing at the trim stage has no line.
ConcatListExact ==
    Ran("concat") =>
        /\ \A k \in 1..Len(Segs) :
             /\ Exists(Segs[k].trimmed_video_path) =>
                  \E c \in 1..Len(concat_list) :
                      concat_list[c] = [index |-> Segs[k].index,
                                        path |-> Segs[k].trimmed_video_path]
             /\ ~trims[k].called =>
                  /\ ~Exists(Segs[k].video_path)
                  /\ \A c \in 1..Len(concat_list) : concat_list[c].index # Segs[k].index
        /\ \A c \in 1..Len(concat_list) :
             /\ \E k \in 1..Len(Segs) :
                  /\ concat_list[c].index = Segs[k].index
                  /\ concat_list[c].path = Segs[k].trimmed_video_path
                  /\ Exists(Segs[k].trimmed_video_path)
             /\ \A e \in 1..Len(concat_list) :
                  concat_list[e].index = concat_list[c].index => e = c

\* a list of one line: the first segment had no source clip, the trim of the
\* second failed and its source clip stands in
ConcatListExactWitness ==
    /\ Ran("concat")
    /\ Len(Segs) = 2 /\ Len(concat_list) = 1
    /\ ~trims[1].called
    /\ Trimmed(2, 1)
    /\ concat_list[1].path = Segs[2].video_path

\* C25: for N voiceover segments and N clip paths, the Timeline build_timeline
\* returns has exactly N segments in input order, segment i with index i, the
\* text, start and end of voiceover segment i, clip path i and no
\* trimmed_video_path; the two input lists are never modified.
BuildTimelineExact ==
    /\ []((pc # "build" /\ Len(voiceover_segments) = Len(video_clips)) =>
            /\ Len(Segs) = Len(voiceover_segments)
            /\ \A k \in 1..Len(Segs) :
                 /\ Segs[k].index = k - 1
                 /\ Segs[k].voiceover_text = voiceover_segments[k].text
                 /\ Segs[k].vo_start = voiceover_segments[k].start
                 /\ Segs[k].vo_end = voiceover_segments[k].end
                 /\ Segs[k].video_path = video_clips[k]
                 /\ (pc = "trim" /\ i = 1) => Segs[k].trimmed_video_path = None)
    /\ [][voiceover_segments' = voiceover_segments /\ video_clips' = video_clips]_vars

\* build_timeline has just returned a Timeline of two segments
BuildTimelineWitness ==
    /\ pc = "trim" /\ i = 1
    /\ Len(voiceover_segments) = 2 /\ Len(video_clips) = 2
    /\ Len(Segs) = 2
    /\ Segs[2].video_path = ClipPath(1)

\* the working files of the stages after the trim
WorkingFiles == {ConcatPath, FadedPath, BlackPath, OutroPath}

Inside == {t \in Threads : thread[t].pc = "inside"}

\* C27 (as claimed): however many threads call generate on one client, at most
\* max_concurrent calls are between acquire and release at the same time.
ConcurrencyBounded == Cardinality(Inside) <= max_concurrent

\* C28: the list of batch_generate is as long as tasks at every moment; the
\* entry of a task is None until its future was collected, and from then on
\* the response to that task, or the error record of that task if its call of
\* generate raised, whatever the other tasks did and in whatever order the
\* threads finished.
BatchEntries ==
    /\ Len(results) = Len(tasks)
    /\ \A t \in Threads :
         results[t] = IF thread[t].pc # "collected" THEN NoEntry
                      ELSE IF thread[t].outcome \in {"result", "cached"}
                           THEN [response |-> tasks[t]]
                           ELSE [error |-> thread[t].outcome]

\* the second task failed and was collected while the first is still at the
\* remote model
BatchEntriesWitness ==
    /\ Len(tasks) = 2
    /\ thread[2].pc = "collected" /\ thread[2].outcome = "error"
    /\ thread[1].pc = "inside"
    /\ results[2] = [error |-> "error"]

\* the attempts at which the remote model gave a result or a validation /
\* content / policy error
Decisive(outcomes) == {p \in 1..MAX_RETRIES : outcomes[p] \in {"ok", "validation"}}

\* C29: a call of generate that goes to the remote model makes at most
\* max_retries attempts; it ends at the first attempt that gives a result,
\* returning it, or a validation / content / policy error, raising it, and
\* makes no attempt after that one; without such an attempt it raises after
\* max_retries attempts.  A call that acquired the rate-limiter slot releases
\* it once, whether it returns or raises, and a call answered from the cache
\* acquires and releases nothing.
GenerateContract ==
    LET g == thread[1]
    IN /\ g.released <= g.acquired /\ g.acquired <= 1
       /\ g.attempts <= MAX_RETRIES
       /\ g.pc = "returned" =>
            IF g.outcome = "cached"
            THEN g.attempts = 0 /\ g.acquired = 0 /\ g.released = 0
            ELSE /\ g.acquired = 1 /\ g.released = 1 /\ active_requests = 0
                 /\ IF Decisive(g.outcomes) = {}
                    THEN g.attempts = MAX_RETRIES /\ g.outcome \in {"error", "exhausted"}
                    ELSE LET first == CHOOSE p \in Decisive(g.outcomes) :
                                          \A q \in Decisive(g.outcomes) : p <= q
                         IN /\ g.attempts = first
                            /\ g.outcome = IF g.outcomes[first] = "ok" THEN "result"
                                            ELSE "validation"

\* a call that was retried once, met a validation error at its second attempt
\* although the third would have given a result, and released its slot
GenerateContractWitness ==
    /\ pc = "generate"
    /\ thread[1].pc = "returned"
    /\ thread[1].outcomes = <<"rate", "validation", "ok">>
    /\ thread[1].outcome = "validation"
    /\ thread[1].released = 1

\* C30 (as claimed): in the Timeline built at the end of VideoPipeline.run,
\* the clip of every segment is the clip generated for the shot whose voiceover
\* timing the segment has: clip_{i} of that shot i, made from the storyboard
\* frame of shot i, whatever failed for other shots.
ClipsAligned ==
    pc = "trim" =>
        \A k \in 1..Len(Segs) :
            LET shot == Segs[k].voiceover_text
            IN /\ Segs[k].video_path = ClipPath(shot)
               /\ \E v \in 1..Len(videos) :
                    /\ videos[v].success
                    /\ videos[v].shot_index = shot
                    /\ videos[v].image = shot

====
